---- MODULE Spec2Model ----
(***************************************************************************)
(* goptlib (pt.go): the extended OR port client.                           *)
(*                                                                         *)
(* ConnectOr dials either the OR port (direct mode) or the extended OR     *)
(* port.  On the extended OR port it runs the SAFE_COOKIE handshake        *)
(* (extOrPortAuthenticate) and then the USERADDR / TRANSPORT / DONE        *)
(* exchange (extOrPortSetup) under one 5 second deadline.                  *)
(*                                                                         *)
(* Every call of ConnectOr is an attempt a \in Attempts with its own       *)
(* locals (proc[a]), its own TCP connection (net[a]) and its own peer (the *)
(* program at the other end of that connection, peer[a]).  An attempt      *)
(* moves at its blocking points: one action per connection read or write.  *)
(* The peer is free: it may send each of its messages at any time, with    *)
(* any content drawn from small sets, stop sending, or close.              *)
(***************************************************************************)
EXTENDS Integers, Sequences, FiniteSets, TLC

VARIABLES
    info,   \* the ServerInfo shared by every attempt
    proc,   \* proc[a]: locals and result of attempt a's ConnectOr call
    net,    \* net[a]: the *net.TCPConn s of attempt a
    peer,   \* peer[a]: the far end of net[a] and what it has chosen to send
    call    \* a call of one of the other functions: its inputs and results

vars == <<info, proc, net, peer, call>>

----------------------------------------------------------------------------
(* Bounds of the model *)

\* Longest command body the peer puts in its response frame.
MaxPeerBody == 1

\* The calls of ConnectOr.
Attempts == {1}

\* Longest of the command bodies that are tried with every content.
MaxCodecBody == 2

----------------------------------------------------------------------------
(* Program constants *)

\* var authTypes [256]bool; for count = 0; count < 256; count++
MaxAuthTypes == 256

\* make([]byte, 32) for nonces and hashes
NonceLen == 32

\* bufio.NewReader(s): the default buffer size of package bufio
BufSize == 4096

\* len(body) > 65535
MaxBodyLen == 65535

extOrCmdDone == 0
extOrCmdUserAddr == 1
extOrCmdTransport == 2
extOrCmdOkay == 4096
extOrCmdDeny == 4097

ServerHashDomain == "ExtORPort authentication server-to-client hash"
ClientHashDomain == "ExtORPort authentication client-to-server hash"

----------------------------------------------------------------------------
(* Bytes and byte strings *)

Min(x, y) == IF x <= y THEN x ELSE y

Rep(b, n) == [i \in 1..n |-> b]

Take(s, n) == SubSeq(s, 1, n)

Drop(s, n) == SubSeq(s, n + 1, Len(s))

\* Fault: the low byte first.
LittleEndian16(x) == << x % 256, (x % 65536) \div 256 >>

\* binary.Write(&buf, binary.BigEndian, uint16)
BigEndian16(x) == << (x % 65536) \div 256, x % 256 >>

\* binary.Read(buf, binary.BigEndian, &uint16)
ReadBigEndian16(s, i) == s[i] * 256 + s[i + 1]

\* The bytes extOrPortWriteCommand puts in buf: id, length, body.
Frame(cmd, body) == BigEndian16(cmd) \o BigEndian16(Len(body)) \o body

----------------------------------------------------------------------------
(* HMAC-SHA256, as a deterministic function of key, domain string and the  *)
(* two nonces that is injective on the values of this model.               *)

DomainByte(domain) == IF domain = ServerHashDomain THEN 1 ELSE 2

KeyByte(key, i) == IF Len(key) = 0 THEN 0 ELSE key[((i - 1) % Len(key)) + 1]

Hmac(key, domain, clientNonce, serverNonce) ==
    [i \in 1..NonceLen |->
        (7 * KeyByte(key, i) + 5 * DomainByte(domain)
           + 3 * clientNonce[i] + 11 * serverNonce[i] + i) % 256]

\* Fault: the server hash computed with the client-to-server domain.
computeServerHashClientDomain(inf, clientNonce, serverNonce) ==
    Hmac(inf.AuthCookie, ClientHashDomain, clientNonce, serverNonce)

computeServerHash(inf, clientNonce, serverNonce) ==
    Hmac(inf.AuthCookie, ServerHashDomain, clientNonce, serverNonce)

computeClientHash(inf, clientNonce, serverNonce) ==
    Hmac(inf.AuthCookie, ClientHashDomain, clientNonce, serverNonce)

\* Fault: the result of the comparison read the wrong way round.
ConstantTimeCompareInverted(x, y) == IF x = y THEN 0 ELSE 1

\* subtle.ConstantTimeCompare: 1 when equal, else 0
ConstantTimeCompare(x, y) == IF x = y THEN 1 ELSE 0

----------------------------------------------------------------------------
(* Inputs *)

\* The cookie ServerSetup loaded, and another one a peer may hold.
AuthCookie == Rep(99, NonceLen)
OtherCookie == Rep(100, NonceLen)
PeerCookies == {AuthCookie, OtherCookie}

\* Values crypto/rand may give, and the nonces a peer may send.
Nonces == {Rep(17, NonceLen), Rep(34, NonceLen)}
PeerNonces == {Rep(34, NonceLen)}

\* ServerInfo values ServerSetup returns without error.
ServerInfos ==
    [OrAddr : {"or"}, ExtendedOrAddr : {"nil", "extor"}, AuthCookie : {AuthCookie}]

\* conn.RemoteAddr().String() of attempt a: "1.2:3<a>"
RemoteAddr(a) == <<49, 46, 50, 58, 51, 48 + a>>

\* methodName is the caller's: a name of n letters "f", for a short n and
\* for the first n that does not fit a command body.
MethodNameLens == {3, MaxBodyLen + 1}
MethodName(n) == Rep(102, n)

\* Auth-type lists a peer may send: with and without type 1, with and
\* without terminator, and 255, 256 and 257 types before the terminator.
AuthLists ==
    { <<1, 0>>, <<2, 0>>, <<0>>, <<1>>,
      Rep(2, MaxAuthTypes - 2) \o <<1, 0>>,
      Rep(2, MaxAuthTypes - 1) \o <<1, 0>>,
      Rep(2, MaxAuthTypes) \o <<1, 0>> }

StatusBytes == {0, 1, 2, 255}

PeerCmds == {extOrCmdDone, extOrCmdUserAddr, extOrCmdTransport,
             extOrCmdOkay, extOrCmdDeny, 4098}

PeerBodies == { Rep(7, n) : n \in 0..MaxPeerBody }

\* What the peer may send as its response: a frame, or an OKAY frame cut
\* inside its header or just before its end.
PeerResponses ==
    { Frame(c, b) : c \in PeerCmds, b \in PeerBodies }
    \cup UNION { { Take(Frame(extOrCmdOkay, b), n) : n \in {2, 3 + Len(b)} } :
                    b \in PeerBodies }

----------------------------------------------------------------------------
(* Initial state *)

NoBytes == << >>

InitProc ==
    [pc |-> "idle",
     methodNameLen |-> 0,    \* len(methodName), set by the call
     count |-> 0,            \* var count int
     authTypes |-> {},       \* the b with authTypes[b] = true
     r |-> NoBytes,          \* bytes buffered in the bufio.Reader r
     data |-> NoBytes,       \* bytes the current io.ReadFull has so far
     clientNonce |-> NoBytes,
     serverNonce |-> NoBytes,
     serverHash |-> NoBytes,
     status |-> -1,          \* status[0], -1 until read
     cmd |-> -1,             \* cmd of extOrPortRecvCommand, -1 until read
     bodyLen |-> 0,
     stream |-> "none",      \* ConnectOr's results, "none" until it returns
     err |-> "none",
     hmacs |-> {}]           \* history: domains an HMAC was computed for

InitNet ==
    [state |-> "none",       \* none, open, closed
     addr |-> "nil",         \* address dialed
     dials |-> {},           \* history: every address dialed
     deadline |-> "none",    \* none, set
     expired |-> FALSE,      \* the deadline that is set has passed
     sent |-> NoBytes,       \* every byte the peer wrote, in order
     segs |-> {},            \* offsets in sent where a peer write ended
     nread |-> 0,            \* bytes of sent handed out by s.Read
     out |-> NoBytes]        \* every byte written with s.Write, in order

\* No function is called on its own.
NoCall == [fn |-> "none"]

InitPeer ==
    [stage |-> 0,            \* messages sent: 0..4
     closed |-> FALSE,
     list |-> NoBytes, hash |-> NoBytes, nonce |-> NoBytes,
     status |-> -1, response |-> NoBytes,
     late |-> FALSE]         \* the response was sent after DONE was written

Init ==
    /\ info \in ServerInfos
    /\ proc = [a \in Attempts |-> InitProc]
    /\ net = [a \in Attempts |-> InitNet]
    /\ peer = [a \in Attempts |-> InitPeer]
    /\ call = NoCall

----------------------------------------------------------------------------
(* Steps shared by the actions *)

\* The attempt goes on with locals p and connection c.
Goto(a, p, c) ==
    /\ proc' = [proc EXCEPT ![a] = p]
    /\ net' = [net EXCEPT ![a] = c]
    /\ UNCHANGED <<info, peer, call>>

\* Fault: the error is returned and the connection left open.
ReturnWithoutClose(a, p, c, e) ==
    Goto(a, [p EXCEPT !.pc = "done", !.stream = "nil", !.err = e], c)

\* ConnectOr after extOrPortAuthenticate or extOrPortSetup returned e:
\* s.Close(); return nil, err
CloseAndReturn(a, p, c, e) ==
    Goto(a, [p EXCEPT !.pc = "done", !.stream = "nil", !.err = e],
            [c EXCEPT !.state = "closed"])

\* Fault: the stream is returned with the deadline still set.
ReturnWithoutClearing(a, p, c) ==
    Goto(a, [p EXCEPT !.pc = "done", !.stream = "s", !.err = "nil"], c)

\* ConnectOr after both returned nil:
\* s.SetDeadline(time.Time{}); return s, nil
ClearDeadlineAndReturn(a, p, c) ==
    Goto(a, [p EXCEPT !.pc = "done", !.stream = "s", !.err = "nil"],
            [c EXCEPT !.deadline = "none", !.expired = FALSE])

Avail(c) == Len(c.sent) - c.nread

\* Sizes one s.Read into a buffer of cap bytes may return: everything that
\* has arrived, or the bytes up to the end of one of the peer's writes.
ReadSizes(c, cap) ==
    { k \in 1..Min(Avail(c), cap) :
        k = Min(Avail(c), cap) \/ (c.nread + k) \in c.segs }

ReadBytes(c, k) == SubSeq(c.sent, c.nread + 1, c.nread + k)

\* Fault: s.Read goes on after the deadline has passed.
ConnReadsNoDeadline(a, cap) ==
    LET c == net[a]
    IN  IF Avail(c) = 0
        THEN IF peer[a].closed
             THEN {[err |-> "EOF", buf |-> NoBytes, nread |-> c.nread]}
             ELSE {}
        ELSE {[err |-> "nil", buf |-> ReadBytes(c, k), nread |-> c.nread + k] :
                 k \in ReadSizes(c, cap)}

\* The outcomes of one s.Read into a buffer of cap bytes: it fails once the
\* deadline has passed, and with EOF when the peer has closed and nothing
\* is left to read; it blocks (no outcome) while nothing has arrived.
ConnReads(a, cap) ==
    LET c == net[a]
    IN  IF c.expired THEN {[err |-> "timeout", buf |-> NoBytes, nread |-> c.nread]}
        ELSE IF Avail(c) = 0
        THEN IF peer[a].closed
             THEN {[err |-> "EOF", buf |-> NoBytes, nread |-> c.nread]}
             ELSE {}
        ELSE {[err |-> "nil", buf |-> ReadBytes(c, k), nread |-> c.nread + k] :
                 k \in ReadSizes(c, cap)}

\* The outcomes of one read through the bufio.Reader r at a blocking point
\* (r.ReadByte, or the r.Read of io.ReadFull): bytes still buffered are
\* served without touching s; an empty buffer is filled by one s.Read.
BufferedReads(a) ==
    IF proc[a].r # NoBytes
    THEN {[err |-> "nil", buf |-> proc[a].r, nread |-> net[a].nread]}
    ELSE ConnReads(a, BufSize)

\* The outcomes of one s.Read of io.ReadFull(s, data), data of need bytes.
DirectReads(a, need) == ConnReads(a, need - Len(proc[a].data))

\* The connection after the read with outcome o.
AfterRead(a, o) == [net[a] EXCEPT !.nread = o.nread]

\* s.Write(bytes): fails once the deadline has passed, and may fail when
\* the peer has closed; otherwise the bytes are on the connection.
ConnWrite(a, p, c, bytes, next) ==
    IF c.expired THEN CloseAndReturn(a, p, c, "timeout")
    ELSE \/ Goto(a, [p EXCEPT !.pc = next], [c EXCEPT !.out = @ \o bytes])
         \/ peer[a].closed /\ CloseAndReturn(a, p, c, "EPIPE")

----------------------------------------------------------------------------
(* ConnectOr *)

\* net.DialTCP succeeded: the attempt owns an open connection to addr.
Dialed(c, addr) == [c EXCEPT !.state = "open", !.addr = addr, !.dials = @ \cup {addr}]

\* net.DialTCP failed.
DialFailed(c, addr) == [c EXCEPT !.dials = @ \cup {addr}]

\* Fault: no deadline is set.
SetDeadlineOmitted(c) == c

\* s.SetDeadline(time.Now().Add(5 * time.Second))
SetDeadline(c) == [c EXCEPT !.deadline = "set", !.expired = FALSE]

\* Fault: the test of ExtendedOrAddr the wrong way round.
UseExtendedOrPortInverted(inf) == inf.ExtendedOrAddr = "nil"

\* if info.ExtendedOrAddr == nil { direct } else { extended OR port }
UseExtendedOrPort(inf) == inf.ExtendedOrAddr # "nil"

\* The call of ConnectOr(info, conn, methodName) up to its first blocking
\* read.
ConnectOr(a) ==
    \E n \in MethodNameLens :
    LET p == [proc[a] EXCEPT !.methodNameLen = n]
        c == net[a]
    IN  /\ proc[a].pc = "idle"
        /\ IF ~UseExtendedOrPort(info)
           THEN \/ /\ info.OrAddr # "nil"
                   /\ Goto(a, [p EXCEPT !.pc = "done", !.stream = "s", !.err = "nil"],
                           Dialed(c, info.OrAddr))
                \/ Goto(a, [p EXCEPT !.pc = "done", !.stream = "nil", !.err = "dial"],
                           DialFailed(c, info.OrAddr))
           ELSE \/ Goto(a, [p EXCEPT !.pc = "authTypes"],
                           SetDeadline(Dialed(c, info.ExtendedOrAddr)))
                \/ Goto(a, [p EXCEPT !.pc = "done", !.stream = "nil", !.err = "dial"],
                           DialFailed(c, info.ExtendedOrAddr))

\* 5 seconds pass on an attempt whose deadline is set.
DeadlineExpires(a) ==
    /\ proc[a].pc # "done"
    /\ net[a].deadline = "set"
    /\ ~net[a].expired
    /\ net' = [net EXCEPT ![a].expired = TRUE]
    /\ UNCHANGED <<info, proc, peer, call>>

----------------------------------------------------------------------------
(* extOrPortAuthenticate *)

\* The loop over the auth types, run on the bytes buf the reader holds.
\* The loop calls ReadByte while count < 256, so it looks at no more than
\* the first 256 - count bytes of buf: it leaves at the first 0 among them
\* ("break", count not incremented for the 0), or with count = 256 when
\* there are 256 - count of them and none is 0 ("full"), or it uses up buf
\* and the next ReadByte has to read the connection ("more").
AuthTypesLoop(buf, count, authTypes) ==
    LET n == Min(Len(buf), MaxAuthTypes - count)
        zeros == { i \in 1..n : buf[i] = 0 }
        z == CHOOSE i \in zeros : \A j \in zeros : i <= j
        seen(m) == authTypes \cup { buf[i] : i \in 1..m }
    IN  IF zeros # {}
        THEN [exit |-> "break", count |-> count + (z - 1),
              authTypes |-> seen(z - 1), r |-> Drop(buf, z)]
        ELSE IF ~(count + n < MaxAuthTypes)
        THEN [exit |-> "full", count |-> count + n,
              authTypes |-> seen(n), r |-> Drop(buf, n)]
        ELSE [exit |-> "more", count |-> count + n,
              authTypes |-> seen(n), r |-> Drop(buf, n)]

\* Fault: the count is tested with > for >=.
SawNoTerminatorStrict(count) == count > MaxAuthTypes

\* if count >= 256
SawNoTerminator(count) == count >= MaxAuthTypes

\* Fault: any type offered is taken for type 1.
OffersAnyType(authTypes) == authTypes # {}

\* authTypes[1]
OffersSafeCookie(authTypes) == 1 \in authTypes

AuthTypesRead(a, buf, p, c) ==
    LET l == AuthTypesLoop(buf, p.count, p.authTypes)
        p2 == [p EXCEPT !.count = l.count, !.authTypes = l.authTypes, !.r = l.r]
    IN  IF l.exit = "more" THEN Goto(a, p2, c)
        ELSE IF SawNoTerminator(l.count)
        THEN CloseAndReturn(a, p2, c, "read 256 auth types without seeing \\x00")
        ELSE IF ~OffersSafeCookie(l.authTypes)
        THEN CloseAndReturn(a, p2, c, "server didn't offer auth type 1")
        ELSE Goto(a, [p2 EXCEPT !.pc = "writeAuthType"], c)

ReadAuthTypes(a) ==
    /\ proc[a].pc = "authTypes"
    /\ \E o \in BufferedReads(a) :
          IF o.err # "nil" THEN CloseAndReturn(a, proc[a], AfterRead(a, o), o.err)
          ELSE AuthTypesRead(a, o.buf, proc[a], AfterRead(a, o))

\* s.Write([]byte{1})
WriteAuthType(a) ==
    /\ proc[a].pc = "writeAuthType"
    /\ ConnWrite(a, proc[a], net[a], <<1>>, "clientNonce")

\* Fault: the nonce is drawn into a buffer all the attempts share.
GenClientNonceShared(a) ==
    /\ proc[a].pc = "clientNonce"
    /\ \/ \E n \in Nonces :
            /\ proc' = [b \in DOMAIN proc |->
                           IF b = a
                           THEN [proc[b] EXCEPT !.pc = "writeClientNonce",
                                                !.clientNonce = n]
                           ELSE [proc[b] EXCEPT !.clientNonce = n]]
            /\ UNCHANGED <<info, net, peer, call>>
       \/ CloseAndReturn(a, proc[a], net[a], "rand")

\* io.ReadFull(rand.Reader, clientNonce)
GenClientNonce(a) ==
    /\ proc[a].pc = "clientNonce"
    /\ \/ \E n \in Nonces :
            Goto(a, [proc[a] EXCEPT !.pc = "writeClientNonce", !.clientNonce = n], net[a])
       \/ CloseAndReturn(a, proc[a], net[a], "rand")

\* s.Write(clientNonce)
WriteClientNonce(a) ==
    /\ proc[a].pc = "writeClientNonce"
    /\ ConnWrite(a, proc[a], net[a], proc[a].clientNonce, "serverHash")

\* The error of io.ReadFull when a read fails with err after got bytes:
\* io.ErrUnexpectedEOF for an EOF after some bytes, else err.
ReadFullErr(err, got) ==
    IF err = "EOF" /\ got > 0 THEN "unexpected EOF" ELSE err

\* One r.Read of io.ReadFull(r, x) for a 32-byte x; data is x when full.
ReadFullStep(buf, p, need) ==
    LET t == Min(need - Len(p.data), Len(buf))
    IN  [p EXCEPT !.data = @ \o Take(buf, t), !.r = Drop(buf, t)]

\* io.ReadFull(r, serverHash)
ReadServerHash(a) ==
    /\ proc[a].pc = "serverHash"
    /\ \E o \in BufferedReads(a) :
          LET c == AfterRead(a, o)
              p2 == ReadFullStep(o.buf, proc[a], NonceLen)
          IN  IF o.err # "nil"
              THEN CloseAndReturn(a, proc[a], c, ReadFullErr(o.err, Len(proc[a].data)))
              ELSE IF Len(p2.data) < NonceLen THEN Goto(a, p2, c)
              ELSE Goto(a, [p2 EXCEPT !.pc = "serverNonce", !.serverHash = p2.data,
                                      !.data = NoBytes], c)

\* io.ReadFull(r, serverNonce)
ReadServerNonce(a) ==
    /\ proc[a].pc = "serverNonce"
    /\ \E o \in BufferedReads(a) :
          LET c == AfterRead(a, o)
              p2 == ReadFullStep(o.buf, proc[a], NonceLen)
          IN  IF o.err # "nil"
              THEN CloseAndReturn(a, proc[a], c, ReadFullErr(o.err, Len(proc[a].data)))
              ELSE IF Len(p2.data) < NonceLen THEN Goto(a, p2, c)
              ELSE Goto(a, [p2 EXCEPT !.pc = "verify", !.serverNonce = p2.data,
                                      !.data = NoBytes], c)

\* The server hash the attempt accepts.
ServerHashOk(inf, p) ==
    ConstantTimeCompare(p.serverHash,
                        computeServerHash(inf, p.clientNonce, p.serverNonce)) = 1

\* expectedServerHash, its comparison, and clientHash
VerifyServerHash(a) ==
    LET p == [proc[a] EXCEPT !.hmacs = @ \cup {ServerHashDomain}]
    IN  /\ proc[a].pc = "verify"
        /\ IF ~ServerHashOk(info, p)
           THEN CloseAndReturn(a, p, net[a], "mismatch in server hash")
           ELSE Goto(a, [p EXCEPT !.pc = "writeClientHash",
                                  !.hmacs = @ \cup {ClientHashDomain}], net[a])

\* Fault: the session setup starts without waiting for the status.
WriteClientHashThenSetup(a) ==
    /\ proc[a].pc = "writeClientHash"
    /\ ConnWrite(a, proc[a], net[a],
                 computeClientHash(info, proc[a].clientNonce, proc[a].serverNonce),
                 "sendUserAddr")

\* s.Write(clientHash)
WriteClientHash(a) ==
    /\ proc[a].pc = "writeClientHash"
    /\ ConnWrite(a, proc[a], net[a],
                 computeClientHash(info, proc[a].clientNonce, proc[a].serverNonce),
                 "status")

\* Fault: only status 0 is taken as a rejection.
StatusResultZeroRejects(status, buffered) ==
    IF status = 0 THEN "server rejected authentication"
    ELSE IF buffered # 0
    THEN "bytes left after extended OR port authentication"
    ELSE "nil"

\* Fault: the reader is not checked for bytes left.
StatusResultNoBufferedCheck(status, buffered) ==
    IF status # 1 THEN "server rejected authentication" ELSE "nil"

\* What extOrPortAuthenticate returns once status is read: "nil" or an error.
StatusResult(status, buffered) ==
    IF status # 1 THEN "server rejected authentication"
    ELSE IF buffered # 0
    THEN "bytes left after extended OR port authentication"
    ELSE "nil"

\* io.ReadFull(r, status), the status check and the r.Buffered() check
ReadStatus(a) ==
    /\ proc[a].pc = "status"
    /\ \E o \in BufferedReads(a) :
          LET c == AfterRead(a, o)
              p2 == ReadFullStep(o.buf, proc[a], 1)
              e == StatusResult(p2.data[1], Len(p2.r))
              p3 == [p2 EXCEPT !.status = p2.data[1], !.data = NoBytes]
          IN  IF o.err # "nil" THEN CloseAndReturn(a, proc[a], c, o.err)
              ELSE IF e # "nil" THEN CloseAndReturn(a, p3, c, e)
              ELSE Goto(a, [p3 EXCEPT !.pc = "sendUserAddr"], c)

----------------------------------------------------------------------------
(* extOrPortSetup *)

\* extOrPortWriteCommand(s, cmd, body): nothing is written for a body of
\* more than 65535 bytes; otherwise the frame goes out in one s.Write.
extOrPortWriteCommand(a, cmd, body, next) ==
    IF Len(body) > MaxBodyLen
    THEN CloseAndReturn(a, proc[a], net[a], "command exceeds maximum length of 65535")
    ELSE ConnWrite(a, proc[a], net[a], Frame(cmd, body), next)

extOrPortSendUserAddr(a) ==
    /\ proc[a].pc = "sendUserAddr"
    /\ extOrPortWriteCommand(a, extOrCmdUserAddr, RemoteAddr(a), "sendTransport")

extOrPortSendTransport(a) ==
    /\ proc[a].pc = "sendTransport"
    /\ extOrPortWriteCommand(a, extOrCmdTransport, MethodName(proc[a].methodNameLen),
                             "sendDone")

extOrPortSendDone(a) ==
    /\ proc[a].pc = "sendDone"
    /\ extOrPortWriteCommand(a, extOrCmdDone, NoBytes, "recvHeader")

\* Fault: every command but DENY is taken as OKAY.
SetupResultDenyOnly(cmd) ==
    IF cmd = extOrCmdDeny THEN "server returned DENY after our USERADDR and DONE"
    ELSE "nil"

\* What extOrPortSetup returns for the command received: "nil" or an error.
SetupResult(cmd) ==
    IF cmd = extOrCmdDeny THEN "server returned DENY after our USERADDR and DONE"
    ELSE IF cmd # extOrCmdOkay
    THEN "server returned unknown command after our USERADDR and DONE"
    ELSE "nil"

\* extOrPortRecvCommand returned cmd without error: extOrPortSetup's check
\* of it, and the end of ConnectOr.
CommandReceived(a, p, c) ==
    IF SetupResult(p.cmd) # "nil"
    THEN CloseAndReturn(a, p, c, SetupResult(p.cmd))
    ELSE ClearDeadlineAndReturn(a, p, c)

\* Fault: one s.Read for io.ReadFull: the header is parsed from what the
\* first read returned, the rest of data being 0.
RecvCommandHeaderOneRead(a) ==
    /\ proc[a].pc = "recvHeader"
    /\ \E o \in DirectReads(a, 4) :
          LET p == proc[a]
              c == AfterRead(a, o)
              data == o.buf \o Rep(0, 4 - Len(o.buf))
              p2 == [p EXCEPT !.cmd = ReadBigEndian16(data, 1),
                              !.bodyLen = ReadBigEndian16(data, 3),
                              !.data = NoBytes]
          IN  IF o.err # "nil" THEN CloseAndReturn(a, p, c, o.err)
              ELSE IF p2.bodyLen = 0 THEN CommandReceived(a, p2, c)
              ELSE Goto(a, [p2 EXCEPT !.pc = "recvBody"], c)

\* extOrPortRecvCommand: io.ReadFull(s, data) for the 4 header bytes, cmd
\* and bodyLen.  A body of length 0 is read without touching s.
RecvCommandHeader(a) ==
    /\ proc[a].pc = "recvHeader"
    /\ \E o \in DirectReads(a, 4) :
          LET p == proc[a]
              c == AfterRead(a, o)
              data == p.data \o o.buf
              p2 == [p EXCEPT !.cmd = ReadBigEndian16(data, 1),
                              !.bodyLen = ReadBigEndian16(data, 3),
                              !.data = NoBytes]
          IN  IF o.err # "nil"
              THEN CloseAndReturn(a, p, c, ReadFullErr(o.err, Len(p.data)))
              ELSE IF Len(data) < 4 THEN Goto(a, [p EXCEPT !.data = data], c)
              ELSE IF p2.bodyLen = 0 THEN CommandReceived(a, p2, c)
              ELSE Goto(a, [p2 EXCEPT !.pc = "recvBody"], c)

\* extOrPortRecvCommand: io.ReadFull(s, body)
RecvCommandBody(a) ==
    /\ proc[a].pc = "recvBody"
    /\ \E o \in DirectReads(a, proc[a].bodyLen) :
          LET p == proc[a]
              c == AfterRead(a, o)
              data == p.data \o o.buf
          IN  IF o.err # "nil"
              THEN CloseAndReturn(a, p, c, ReadFullErr(o.err, Len(p.data)))
              ELSE IF Len(data) < p.bodyLen THEN Goto(a, [p EXCEPT !.data = data], c)
              ELSE CommandReceived(a, [p EXCEPT !.data = NoBytes], c)

----------------------------------------------------------------------------
(* The peer: the far end of the connection to the extended OR port *)

Connected(a) == proc[a].pc \notin {"idle", "done"}

PeerSend(a, bytes, q) ==
    /\ Connected(a)
    /\ ~peer[a].closed
    /\ net' = [net EXCEPT ![a].sent = @ \o bytes,
                          ![a].segs = @ \cup {Len(net[a].sent) + Len(bytes)}]
    /\ peer' = [peer EXCEPT ![a] = q]
    /\ UNCHANGED <<info, proc, call>>

PeerSendAuthTypes(a) ==
    /\ peer[a].stage = 0
    /\ \E l \in AuthLists :
          PeerSend(a, l, [peer[a] EXCEPT !.stage = 1, !.list = l])

\* Hashes a peer may present over its nonce ns and any client nonce (the
\* one it received, or another): the server hash under either cookie, or
\* the client hash under the right one.
PeerHashes(ns) ==
    { Hmac(k, ServerHashDomain, nc, ns) : k \in PeerCookies, nc \in Nonces }
    \cup { Hmac(AuthCookie, ClientHashDomain, nc, ns) : nc \in Nonces }

PeerSendServerHash(a) ==
    /\ peer[a].stage = 1
    /\ \E ns \in PeerNonces : \E h \in PeerHashes(ns) :
          PeerSend(a, h \o ns, [peer[a] EXCEPT !.stage = 2, !.hash = h, !.nonce = ns])

PeerSendStatus(a) ==
    /\ peer[a].stage = 2
    /\ \E b \in StatusBytes :
          PeerSend(a, <<b>>, [peer[a] EXCEPT !.stage = 3, !.status = b])

PeerSendResponse(a) ==
    /\ peer[a].stage = 3
    /\ \E f \in PeerResponses :
          PeerSend(a, f, [peer[a] EXCEPT !.stage = 4, !.response = f,
                             !.late = proc[a].pc \in {"recvHeader", "recvBody"}])

PeerClose(a) ==
    /\ Connected(a)
    /\ ~peer[a].closed
    /\ peer' = [peer EXCEPT ![a].closed = TRUE]
    /\ UNCHANGED <<info, proc, net, call>>

----------------------------------------------------------------------------
(* Specification *)

Next ==
    \E a \in Attempts :
        \/ ConnectOr(a)
        \/ DeadlineExpires(a)
        \/ ReadAuthTypes(a)
        \/ WriteAuthType(a)
        \/ GenClientNonce(a)
        \/ WriteClientNonce(a)
        \/ ReadServerHash(a)
        \/ ReadServerNonce(a)
        \/ VerifyServerHash(a)
        \/ WriteClientHash(a)
        \/ ReadStatus(a)
        \/ extOrPortSendUserAddr(a)
        \/ extOrPortSendTransport(a)
        \/ extOrPortSendDone(a)
        \/ RecvCommandHeader(a)
        \/ RecvCommandBody(a)
        \/ PeerSendAuthTypes(a)
        \/ PeerSendServerHash(a)
        \/ PeerSendStatus(a)
        \/ PeerSendResponse(a)
        \/ PeerClose(a)

Spec == Init /\ [][Next]_vars

\* The steps of attempt a after its dial.
AttemptNext(a) ==
    \/ ReadAuthTypes(a)
    \/ WriteAuthType(a)
    \/ GenClientNonce(a)
    \/ WriteClientNonce(a)
    \/ ReadServerHash(a)
    \/ ReadServerNonce(a)
    \/ VerifyServerHash(a)
    \/ WriteClientHash(a)
    \/ ReadStatus(a)
    \/ extOrPortSendUserAddr(a)
    \/ extOrPortSendTransport(a)
    \/ extOrPortSendDone(a)
    \/ RecvCommandHeader(a)
    \/ RecvCommandBody(a)

\* The goroutine of an attempt runs whenever it is not blocked in a read,
\* and the clock goes on: a deadline that is set passes.  Nothing is
\* assumed of the peer, nor of the caller.
Fairness ==
    \A a \in Attempts :
        WF_vars(AttemptNext(a)) /\ WF_vars(DeadlineExpires(a))

FairSpec == Spec /\ Fairness

----------------------------------------------------------------------------
(* Concurrent attempts: ConnectOr is called from several goroutines with   *)
(* the same ServerInfo.  Each call has its own connection and its own      *)
(* peer; here a peer sends each message when the attempt is waiting for    *)
(* it, and has its own server nonce.                                       *)

ConcAttempts == {1, 2}

\* The server nonce of the peer of attempt a.
ServerNonceOf(a) == Rep(40 + a, NonceLen)

ConcResponses == {Frame(extOrCmdOkay, NoBytes), Frame(extOrCmdDeny, <<7>>)}

\* The attempt is in the read at pc and nothing has come yet.
WaitingAt(a, pc) ==
    /\ proc[a].pc = pc
    /\ proc[a].r = NoBytes
    /\ Avail(net[a]) = 0

ConcPeerSendAuthTypes(a) ==
    /\ peer[a].stage = 0
    /\ WaitingAt(a, "authTypes")
    /\ PeerSend(a, <<1, 0>>, [peer[a] EXCEPT !.stage = 1, !.list = <<1, 0>>])

\* The server hash under the cookie over the peer's nonce and one of the
\* client nonces: the one of this attempt, or the one of another.
ConcPeerSendServerHash(a) ==
    /\ peer[a].stage = 1
    /\ WaitingAt(a, "serverHash")
    /\ \E nc \in Nonces :
          LET ns == ServerNonceOf(a)
              h == Hmac(AuthCookie, ServerHashDomain, nc, ns)
          IN  PeerSend(a, h \o ns,
                       [peer[a] EXCEPT !.stage = 2, !.hash = h, !.nonce = ns])

ConcPeerSendStatus(a) ==
    /\ peer[a].stage = 2
    /\ WaitingAt(a, "status")
    /\ \E b \in {0, 1} :
          PeerSend(a, <<b>>, [peer[a] EXCEPT !.stage = 3, !.status = b])

ConcPeerSendResponse(a) ==
    /\ peer[a].stage = 3
    /\ WaitingAt(a, "recvHeader")
    /\ \E f \in ConcResponses :
          PeerSend(a, f, [peer[a] EXCEPT !.stage = 4, !.response = f,
                                        !.late = TRUE])

ConcInit ==
    /\ info \in ServerInfos
    /\ proc = [a \in ConcAttempts |-> InitProc]
    /\ net = [a \in ConcAttempts |-> InitNet]
    /\ peer = [a \in ConcAttempts |-> InitPeer]
    /\ call = NoCall

ConcNext ==
    \E a \in ConcAttempts :
        \/ ConnectOr(a)
        \/ AttemptNext(a)
        \/ DeadlineExpires(a)
        \/ ConcPeerSendAuthTypes(a)
        \/ ConcPeerSendServerHash(a)
        \/ ConcPeerSendStatus(a)
        \/ ConcPeerSendResponse(a)

ConcSpec == ConcInit /\ [][ConcNext]_vars

----------------------------------------------------------------------------
(* The command framing on its own: extOrPortWriteCommand writes a command  *)
(* on a connection whose bytes come back to extOrPortRecvCommand, all of   *)
(* them, or followed by more, or cut short by the end of the stream.       *)

\* No ServerInfo: var info ServerInfo
NoServerInfo == [OrAddr |-> "nil", ExtendedOrAddr |-> "nil", AuthCookie |-> NoBytes]

\* No call of ConnectOr is made.
NoAttempts ==
    /\ proc = [a \in Attempts |-> InitProc]
    /\ net = [a \in Attempts |-> InitNet]
    /\ peer = [a \in Attempts |-> InitPeer]

\* cmd uint16: the five commands and one that is none of them.
CodecCmds == {extOrCmdDone, extOrCmdUserAddr, extOrCmdTransport,
              extOrCmdOkay, extOrCmdDeny, 258}

CodecBytes == {0, 255}

\* body []byte: every short body, and bodies around the lengths where the
\* two length bytes change and around the maximum.
CodecBodies ==
    UNION { [1..k -> CodecBytes] : k \in 0..MaxCodecBody }
    \cup { Rep(1, n) : n \in {255, 256, 257, MaxBodyLen - 1, MaxBodyLen,
                              MaxBodyLen + 1, MaxBodyLen + 2} }

\* Bytes already on the connection before the call.
CodecBefore == {NoBytes, <<0, 1>>}

\* Bytes that follow the frame on the stream.
CodecAfter == {NoBytes, <<16, 0>>, <<16, 0, 0, 0>>}

\* Fault: the length of the body is not checked, and uint16(len(body))
\* wraps around.
WriteCommandUnchecked(cmd, body) ==
    [err |-> "nil", bytes |-> Frame(cmd, body)]

\* What extOrPortWriteCommand(s, cmd, body) returns and the bytes it writes
\* with s.Write: none for a body of more than 65535 bytes.
WriteCommand(cmd, body) ==
    IF Len(body) > MaxBodyLen
    THEN [err |-> "command exceeds maximum length of 65535", bytes |-> NoBytes]
    ELSE [err |-> "nil", bytes |-> Frame(cmd, body)]

\* The error of io.ReadFull that got fewer bytes than it asked for before
\* the stream ended.
ShortRead(got) == IF got = 0 THEN "EOF" ELSE "unexpected EOF"

\* Fault: the error of the read of the body is dropped.
RecvCommandBodyUnchecked(s) ==
    IF Len(s) < 4
    THEN [cmd |-> 0, body |-> NoBytes, err |-> ShortRead(Len(s)), n |-> Len(s)]
    ELSE LET bodyLen == ReadBigEndian16(s, 3)
             got == Min(Len(s) - 4, bodyLen)
         IN  [cmd |-> ReadBigEndian16(s, 1),
              body |-> SubSeq(s, 5, 4 + got) \o Rep(0, bodyLen - got),
              err |-> "nil", n |-> 4 + got]

\* What extOrPortRecvCommand(s) returns (cmd, body, err) when the stream
\* holds the bytes s and then ends, and the number n of bytes it has read.
\* The results are named: they are returned as they stand when a read
\* fails, cmd 0 and body nil before the header is parsed, the parsed cmd
\* and the body buffer as far as it was filled after that.
RecvCommand(s) ==
    IF Len(s) < 4
    THEN [cmd |-> 0, body |-> NoBytes, err |-> ShortRead(Len(s)), n |-> Len(s)]
    ELSE LET cmd == ReadBigEndian16(s, 1)
             bodyLen == ReadBigEndian16(s, 3)
             got == Len(s) - 4
         IN  IF got < bodyLen
             THEN [cmd |-> cmd,
                   body |-> SubSeq(s, 5, Len(s)) \o Rep(0, bodyLen - got),
                   err |-> ShortRead(got), n |-> Len(s)]
             ELSE [cmd |-> cmd, body |-> SubSeq(s, 5, 4 + bodyLen),
                   err |-> "nil", n |-> 4 + bodyLen]

CodecInit ==
    /\ info = NoServerInfo
    /\ NoAttempts
    /\ \E cmd \in CodecCmds, body \in CodecBodies, before \in CodecBefore :
          call = [fn |-> "codec", pc |-> "write", cmd |-> cmd, body |-> body,
                  before |-> before,
                  out |-> before,        \* bytes written on the connection
                  werr |-> "none",       \* extOrPortWriteCommand's result
                  in |-> NoBytes,        \* the stream extOrPortRecvCommand reads
                  cut |-> FALSE,         \* the stream ended inside the frame
                  res |-> [cmd |-> 0, body |-> NoBytes, err |-> "none", n |-> 0]]

\* The call extOrPortWriteCommand(s, cmd, body).
CodecWrite ==
    /\ call.fn = "codec" /\ call.pc = "write"
    /\ LET w == WriteCommand(call.cmd, call.body)
       IN  call' = [call EXCEPT !.pc = IF w.err = "nil" THEN "sent" ELSE "done",
                                !.out = @ \o w.bytes, !.werr = w.err]
    /\ UNCHANGED <<info, proc, net, peer>>

\* The frame written reaches the reader, followed by more bytes or not.
CodecDeliver ==
    /\ call.fn = "codec" /\ call.pc = "sent"
    /\ \E after \in CodecAfter :
          call' = [call EXCEPT !.pc = "recv",
                               !.in = Drop(call.out, Len(call.before)) \o after]
    /\ UNCHANGED <<info, proc, net, peer>>

\* The stream ends after k bytes of the frame.
CodecCut ==
    /\ call.fn = "codec" /\ call.pc = "sent"
    /\ LET frame == Drop(call.out, Len(call.before))
       IN  \E k \in {0, 1, 3, 4, Len(frame) - 1} :
              /\ k < Len(frame)
              /\ call' = [call EXCEPT !.pc = "recv", !.in = Take(frame, k),
                                      !.cut = TRUE]
    /\ UNCHANGED <<info, proc, net, peer>>

\* The call extOrPortRecvCommand(s).
CodecRecv ==
    /\ call.fn = "codec" /\ call.pc = "recv"
    /\ call' = [call EXCEPT !.pc = "done", !.res = RecvCommand(call.in)]
    /\ UNCHANGED <<info, proc, net, peer>>

CodecNext == CodecWrite \/ CodecDeliver \/ CodecCut \/ CodecRecv

CodecSpec == CodecInit /\ [][CodecNext]_vars

----------------------------------------------------------------------------
(* ServerSetup and readAuthCookieFile: ServerSetup is called once, on an   *)
(* environment drawn from small sets, and ConnectOr is then called with    *)
(* the ServerInfo it returned.                                             *)

\* authCookieHeader := []byte("! Extended ORPort Auth Cookie !\x0a")
authCookieHeader ==
    <<33, 32, 69, 120, 116, 101, 110, 100, 101, 100, 32, 79, 82, 80, 111, 114,
      116, 32, 65, 117, 116, 104, 32, 67, 111, 111, 107, 105, 101, 32, 33, 10>>

\* Headers a file may start with: the header, the header with one byte
\* changed (the first, one in the middle, the line feed), and 32 zeros.
FileHeaders ==
    {authCookieHeader, Rep(0, NonceLen)}
    \cup { [authCookieHeader EXCEPT ![i] = 13] : i \in {1, 16, 32} }

FileCookies == {AuthCookie, [i \in 1..NonceLen |-> 100 + i]}

FileLens == {0, 1, 31, 32, 33, 40, 63, 64, 65, 96}

\* The cookie files: a header, a cookie and 32 more bytes, cut to a length;
\* or no file under the name.
CookieFiles ==
    { [exists |-> TRUE, bytes |-> Take(h \o c \o Rep(7, NonceLen), n)] :
         h \in FileHeaders, c \in FileCookies, n \in FileLens }
    \cup {[exists |-> FALSE, bytes |-> NoBytes]}

\* The environment of ServerSetup.
Environments ==
    [ver : {"1", "2"},                      \* TOR_PT_MANAGED_TRANSPORT_VER
     orPort : {"", "or", "unresolved"},     \* TOR_PT_ORPORT
     bindAddrs : {"ok", "bad"},             \* TOR_PT_SERVER_BINDADDR and others
     extendedOrPort : {"", "extor", "unresolved"},
     authCookieFilename : {"", "cookie"},   \* TOR_PT_AUTH_COOKIE_FILE
     file : CookieFiles]

\* The buffer x of io.ReadFull(f, x) after the read, at offset off of the
\* file: what the file has there, and zeros where it has nothing.
FileRead(bytes, off) ==
    LET got == Min(NonceLen, Len(bytes) - Min(off, Len(bytes)))
    IN  [got |-> got,
         buf |-> SubSeq(bytes, off + 1, off + got) \o Rep(0, NonceLen - got)]

\* Fault: the end of the file is not looked for.
readAuthCookieFileNoEndCheck(file) ==
    LET header == FileRead(file.bytes, 0)
        cookie == FileRead(file.bytes, NonceLen)
    IN  IF ~file.exists THEN [cookie |-> Rep(0, NonceLen), err |-> "open"]
        ELSE IF header.got < NonceLen
        THEN [cookie |-> Rep(0, NonceLen), err |-> ShortRead(header.got)]
        ELSE IF cookie.got < NonceLen
        THEN [cookie |-> cookie.buf, err |-> ShortRead(cookie.got)]
        ELSE IF header.buf # authCookieHeader
        THEN [cookie |-> cookie.buf, err |-> "missing auth cookie header"]
        ELSE [cookie |-> cookie.buf, err |-> "nil"]

\* readAuthCookieFile(filename): the cookie buffer and the error returned.
\* The buffer is returned with every error, filled as far as it was read.
readAuthCookieFile(file) ==
    LET header == FileRead(file.bytes, 0)
        cookie == FileRead(file.bytes, NonceLen)
    IN  IF ~file.exists THEN [cookie |-> Rep(0, NonceLen), err |-> "open"]
        ELSE IF header.got < NonceLen
        THEN [cookie |-> Rep(0, NonceLen), err |-> ShortRead(header.got)]
        ELSE IF cookie.got < NonceLen
        THEN [cookie |-> cookie.buf, err |-> ShortRead(cookie.got)]
        ELSE IF Len(file.bytes) > 2 * NonceLen
        THEN [cookie |-> cookie.buf, err |-> "file is longer than 64 bytes"]
        ELSE IF header.buf # authCookieHeader
        THEN [cookie |-> cookie.buf, err |-> "missing auth cookie header"]
        ELSE [cookie |-> cookie.buf, err |-> "nil"]

\* readAuthCookieFile was not called.
NotRead == [cookie |-> NoBytes, err |-> "none"]

\* ServerSetup(methodNames) in the environment env: the ServerInfo and the
\* error it returns, and what readAuthCookieFile returned to it.  info is
\* returned with every error, filled as far as ServerSetup went.
ServerSetupResult(env) ==
    LET read == readAuthCookieFile(env.file)
        i1 == [NoServerInfo EXCEPT !.OrAddr = env.orPort]
        i2 == IF env.extendedOrPort = "" THEN i1
              ELSE [i1 EXCEPT !.ExtendedOrAddr = env.extendedOrPort]
        i3 == [i2 EXCEPT !.AuthCookie = read.cookie]
    IN  IF env.ver # "1"
        THEN [info |-> NoServerInfo, err |-> "VERSION-ERROR", read |-> NotRead]
        ELSE IF env.orPort \in {"", "unresolved"}
        THEN [info |-> NoServerInfo, err |-> "ENV-ERROR", read |-> NotRead]
        ELSE IF env.bindAddrs # "ok"
        THEN [info |-> i1, err |-> "ENV-ERROR", read |-> NotRead]
        ELSE IF env.extendedOrPort = "unresolved"
        THEN [info |-> i1, err |-> "ENV-ERROR", read |-> NotRead]
        ELSE IF env.authCookieFilename = ""
        THEN [info |-> i2, err |-> "nil", read |-> NotRead]
        ELSE IF read.err # "nil"
        THEN [info |-> i3, err |-> "ENV-ERROR", read |-> read]
        ELSE [info |-> i3, err |-> "nil", read |-> read]

SetupInit ==
    /\ info = NoServerInfo
    /\ NoAttempts
    /\ \E env \in Environments :
          call = [fn |-> "ServerSetup", pc |-> "start", env |-> env,
                  err |-> "none", read |-> NotRead]

\* The call info, err := ServerSetup(methodNames).
ServerSetup ==
    /\ call.fn = "ServerSetup" /\ call.pc = "start"
    /\ LET res == ServerSetupResult(call.env)
       IN  /\ info' = res.info
           /\ call' = [call EXCEPT !.pc = "returned", !.err = res.err,
                                   !.read = res.read]
    /\ UNCHANGED <<proc, net, peer>>

\* A call ConnectOr(&info, conn, methodName) with the info ServerSetup
\* returned, up to its dial.
ConnectOrAfterSetup(a) ==
    /\ call.fn = "ServerSetup" /\ call.pc = "returned"
    /\ ConnectOr(a)

SetupNext == ServerSetup \/ \E a \in Attempts : ConnectOrAfterSetup(a)

SetupSpec == SetupInit /\ [][SetupNext]_vars

----------------------------------------------------------------------------
(* Vocabulary of the properties *)

ErrMismatch == "mismatch in server hash"
ErrNoType1 == "server didn't offer auth type 1"
ErrNoTerminator == "read 256 auth types without seeing \\x00"
ErrStatus == "server rejected authentication"
ErrLeftover == "bytes left after extended OR port authentication"
ErrDeny == "server returned DENY after our USERADDR and DONE"
ErrUnknown == "server returned unknown command after our USERADDR and DONE"
ErrTooLong == "command exceeds maximum length of 65535"

\* Errors of the transport, of the clock and of the random source.
IOErrors == {"dial", "timeout", "EOF", "unexpected EOF", "EPIPE", "rand"}

AuthPcs == {"authTypes", "writeAuthType", "clientNonce", "writeClientNonce",
            "serverHash", "serverNonce", "verify", "writeClientHash", "status"}
SetupPcs == {"sendUserAddr", "sendTransport", "sendDone", "recvHeader", "recvBody"}

\* ServerSetup found TOR_PT_EXTENDED_SERVER_PORT.
ExtendedConfigured == info.ExtendedOrAddr # "nil"

Returned(a) == proc[a].pc = "done"
Succeeded(a) == Returned(a) /\ proc[a].stream = "s" /\ proc[a].err = "nil"
Failed(a) == Returned(a) /\ proc[a].stream = "nil" /\ proc[a].err \notin {"nil", "none"}

\* What the attempt writes before the client hash: the selection, the nonce.
Hello(a) == <<1>> \o proc[a].clientNonce

\* The frames extOrPortSetup writes.
SetupFrames(a) ==
    Frame(extOrCmdUserAddr, RemoteAddr(a))
    \o Frame(extOrCmdTransport, MethodName(proc[a].methodNameLen))
    \o Frame(extOrCmdDone, NoBytes)

\* Position of the first 0 of l, or 0 when l has none.
Terminator(l) ==
    IF \E i \in 1..Len(l) : l[i] = 0
    THEN CHOOSE i \in 1..Len(l) : l[i] = 0 /\ \A j \in 1..(i - 1) : l[j] # 0
    ELSE 0

\* The server hash and nonce are read and the hash is not the HMAC under
\* the cookie of info.
ServerHashMismatch(a) ==
    /\ proc[a].serverNonce # NoBytes
    /\ proc[a].serverHash #
          Hmac(info.AuthCookie, ServerHashDomain, proc[a].clientNonce, proc[a].serverNonce)

----------------------------------------------------------------------------
(* C1 *)

\* C1: whenever the server hash received differs from HMAC(cookie, server
\* domain string || client nonce || server nonce), the attempt ends with the
\* mismatch error and without a stream, and nothing is written after the
\* client nonce: no client hash is computed or written, no command frame.
C1_MismatchRejectedSilently ==
    \A a \in Attempts :
        ServerHashMismatch(a) =>
            /\ net[a].out = Hello(a)
            /\ ClientHashDomain \notin proc[a].hmacs
            /\ \/ proc[a].pc = "verify"
               \/ Failed(a) /\ proc[a].err = ErrMismatch /\ net[a].state = "closed"

\* A peer holding another cookie sent the hash under it and was rejected.
C1_Witness ==
    \E a \in Attempts :
        /\ Failed(a)
        /\ proc[a].err = ErrMismatch
        /\ proc[a].serverHash =
              Hmac(OtherCookie, ServerHashDomain, proc[a].clientNonce, proc[a].serverNonce)

----------------------------------------------------------------------------
(* C2 *)

\* The peer's list has a terminator and no type 1 before it.
ListWithoutType1(l) ==
    Terminator(l) # 0 /\ \A i \in 1..Terminator(l) : l[i] # 1

\* C2: when the zero-terminated list the peer sent has no type 1, the
\* attempt never writes a byte, generates no nonce and computes no HMAC, it
\* never gets past the reading of the list, and it ends without a stream
\* and with an error.
C2_NoType1NothingWritten ==
    \A a \in Attempts :
        (peer[a].stage >= 1 /\ ListWithoutType1(peer[a].list)) =>
            /\ net[a].out = NoBytes
            /\ proc[a].clientNonce = NoBytes
            /\ proc[a].hmacs = {}
            /\ proc[a].pc \in {"authTypes", "done"}
            /\ Returned(a) => Failed(a) /\ net[a].state = "closed"
            /\ (Returned(a) /\ proc[a].err \notin IOErrors)
                  => proc[a].err \in {ErrNoType1, ErrNoTerminator}

\* The list <<2, 0>> was read and the attempt rejected it.
C2_Witness ==
    \E a \in Attempts :
        /\ peer[a].list = <<2, 0>>
        /\ Failed(a)
        /\ proc[a].err = ErrNoType1
        /\ proc[a].authTypes = {2}

----------------------------------------------------------------------------
(* C3 *)

\* The peer's list is a terminated list that offers type 1, and nothing
\* follows the terminator.
ListOffersType1(l) ==
    /\ Terminator(l) = Len(l)
    /\ Len(l) > 0
    /\ \E i \in 1..Len(l) : l[i] = 1

\* Every message the peer has sent is the one the protocol asks for, under
\* the cookie of info: the right server hash over the client nonce, status
\* 1, and an OKAY frame sent once DONE was written.
PeerFollowsProtocol(a) ==
    /\ peer[a].stage >= 1
    /\ ListOffersType1(peer[a].list)
    /\ peer[a].stage >= 2 =>
          /\ proc[a].clientNonce # NoBytes
          /\ peer[a].hash =
                Hmac(info.AuthCookie, ServerHashDomain, proc[a].clientNonce, peer[a].nonce)
    /\ peer[a].stage >= 3 => peer[a].status = 1
    /\ peer[a].stage >= 4 =>
          /\ peer[a].late
          /\ \E b \in PeerBodies : peer[a].response = Frame(extOrCmdOkay, b)

\* The caller's method name fits a command body.
InputsFit(a) == proc[a].methodNameLen <= MaxBodyLen

\* C3 as stated: with the extended OR port configured, a peer that follows
\* the protocol and no I/O error, ConnectOr returns the open connection and
\* a nil error.
C3_Original ==
    \A a \in Attempts :
        (/\ ExtendedConfigured
         /\ Returned(a)
         /\ InputsFit(a)
         /\ PeerFollowsProtocol(a)
         /\ proc[a].err \notin IOErrors)
            => Succeeded(a) /\ net[a].state = "open"

\* C3 amended: the same, for a peer whose list has fewer than 256 types
\* before its terminator.
C3_HonestPeerSucceeds ==
    \A a \in Attempts :
        (/\ ExtendedConfigured
         /\ Returned(a)
         /\ InputsFit(a)
         /\ PeerFollowsProtocol(a)
         /\ Len(peer[a].list) <= MaxAuthTypes
         /\ proc[a].err \notin IOErrors)
            => Succeeded(a) /\ net[a].state = "open"

\* The peer followed the protocol to its end, with a list of 255 types, and
\* ConnectOr returned the connection.
C3_Witness ==
    \E a \in Attempts :
        /\ PeerFollowsProtocol(a)
        /\ peer[a].stage = 4
        /\ Len(peer[a].list) = MaxAuthTypes
        /\ Succeeded(a)
        /\ net[a].out = Hello(a)
              \o Hmac(info.AuthCookie, ClientHashDomain, proc[a].clientNonce,
                      proc[a].serverNonce)
              \o SetupFrames(a)

----------------------------------------------------------------------------
(* C4 *)

\* The first n bytes the peer sent are all there and none is 0.
NoTerminatorIn(a, n) ==
    Len(net[a].sent) >= n /\ \A i \in 1..n : net[a].sent[i] # 0

\* The peer's bytes start with fewer than n types and their terminator.
TerminatedWithin(a, n) ==
    \E z \in 1..Min(n, Len(net[a].sent)) : net[a].sent[z] = 0

\* C4 as stated: a list of n <= 256 types and its terminator is accepted as
\* terminated; the attempt fails with the 'without seeing \x00' error only
\* when there is no terminator among the first 257 bytes.
C4_Original ==
    \A a \in Attempts :
        proc[a].err = ErrNoTerminator => ~TerminatedWithin(a, MaxAuthTypes + 1)

\* C4 amended: a list of n <= 255 types and its terminator is accepted as
\* terminated (the attempt leaves the reading of the list without the
\* 'without seeing \x00' error once it has read the terminator, and goes on
\* to write the selection when type 1 is in the list); the attempt fails
\* with that error exactly when it has read 256 bytes of which none is 0.
C4_TerminatorWithin256 ==
    \A a \in Attempts :
        /\ proc[a].err = ErrNoTerminator => NoTerminatorIn(a, MaxAuthTypes)
        /\ (NoTerminatorIn(a, MaxAuthTypes) /\ net[a].nread >= MaxAuthTypes)
              => Failed(a) /\ proc[a].err = ErrNoTerminator
        /\ (TerminatedWithin(a, MaxAuthTypes) /\ net[a].nread >= Terminator(net[a].sent))
              => /\ proc[a].pc # "authTypes"
                 /\ proc[a].count = Terminator(net[a].sent) - 1
                 /\ proc[a].err = ErrNoType1
                       <=> (Returned(a) /\ ~OffersSafeCookie(proc[a].authTypes))

\* The list of 255 types and a terminator was accepted, and the attempt
\* wrote its selection.
C4_Witness ==
    \E a \in Attempts :
        /\ Len(peer[a].list) = MaxAuthTypes
        /\ Terminator(peer[a].list) = MaxAuthTypes
        /\ proc[a].count = MaxAuthTypes - 1
        /\ proc[a].pc = "clientNonce"
        /\ net[a].out = <<1>>

----------------------------------------------------------------------------
(* C5 *)

\* The attempt went through the whole handshake and setup: type 1 offered,
\* server hash right, status 1, OKAY.
AuthenticatedAndAccepted(a) ==
    /\ 1 \in proc[a].authTypes
    /\ proc[a].serverNonce # NoBytes
    /\ ~ServerHashMismatch(a)
    /\ proc[a].status = 1
    /\ proc[a].cmd = extOrCmdOkay

\* C5: with the extended OR port configured, nothing is returned before the
\* end; ConnectOr returns either the open connection and a nil error, and
\* then after a complete handshake and an OKAY, or no connection and an
\* error; after every failure that follows the dial the connection is
\* closed.
C5_FailureClosesConnection ==
    \A a \in Attempts :
        ExtendedConfigured =>
            /\ ~Returned(a) => proc[a].stream = "none" /\ proc[a].err = "none"
            /\ Returned(a) =>
                  \/ Succeeded(a) /\ net[a].state = "open" /\ AuthenticatedAndAccepted(a)
                  \/ Failed(a) /\ proc[a].err = "dial" /\ net[a].state = "none"
                  \/ Failed(a) /\ proc[a].err # "dial" /\ net[a].state = "closed"

\* The peer answered DONE with DENY: the error is returned, the connection
\* is closed.
C5_Witness ==
    \E a \in Attempts :
        /\ Failed(a)
        /\ proc[a].err = ErrDeny
        /\ proc[a].cmd = extOrCmdDeny
        /\ net[a].state = "closed"

----------------------------------------------------------------------------
(* C6 *)

\* extOrPortRecvCommand returned a command without error.
CommandReceived1(a) ==
    Returned(a) /\ proc[a].cmd # -1 /\ proc[a].err \notin IOErrors

\* Bytes of the peer the handshake consumes: the list with its terminator,
\* the hash, the nonce, the status.
HandshakeBytes(a) == (proc[a].count + 1) + 2 * NonceLen + 1

\* C6: once the command after DONE is received, extOrPortSetup succeeds if
\* and only if its id is OKAY; DENY gives the DENY error and every other id
\* the unknown-command error; a successful attempt has received OKAY; and
\* the attempt has read the bytes of exactly one frame after the handshake.
C6_OkayIffSuccess ==
    \A a \in Attempts :
        /\ CommandReceived1(a) =>
              /\ proc[a].cmd = extOrCmdOkay <=> Succeeded(a)
              /\ proc[a].cmd = extOrCmdDeny <=> (Failed(a) /\ proc[a].err = ErrDeny)
              /\ proc[a].cmd \notin {extOrCmdOkay, extOrCmdDeny}
                    <=> (Failed(a) /\ proc[a].err = ErrUnknown)
              /\ net[a].nread = HandshakeBytes(a) + 4 + proc[a].bodyLen
        /\ (ExtendedConfigured /\ Succeeded(a)) => proc[a].cmd = extOrCmdOkay

\* The peer answered DONE with a TRANSPORT frame and the attempt failed
\* with the unknown-command error.
C6_Witness ==
    \E a \in Attempts :
        /\ CommandReceived1(a)
        /\ proc[a].cmd = extOrCmdTransport
        /\ proc[a].bodyLen = 1
        /\ proc[a].err = ErrUnknown

----------------------------------------------------------------------------
(* C7 *)

\* C7: once the status byte is read, any value but 1 ends the attempt with
\* the rejection error and without a stream, nothing having been written
\* after the client hash; an attempt in session setup, or returned with a
\* stream by the extended OR port, has read status 1.
C7_StatusMustBeOne ==
    \A a \in Attempts :
        /\ (proc[a].status # -1 /\ proc[a].status # 1) =>
              /\ Failed(a)
              /\ proc[a].err = ErrStatus
              /\ net[a].state = "closed"
              /\ Len(net[a].out) = 1 + 2 * NonceLen
        /\ (proc[a].pc \in SetupPcs \/ (ExtendedConfigured /\ Succeeded(a)))
              => proc[a].status = 1

\* Status 255 was read and rejected.
C7_Witness ==
    \E a \in Attempts :
        proc[a].status = 255 /\ Failed(a) /\ proc[a].err = ErrStatus

----------------------------------------------------------------------------
(* C8 *)

\* C8: when status 1 is read and the reader still holds a byte, the attempt
\* ends with the bytes-left error and no frame is written; an attempt in
\* session setup, or returned with a stream, holds no byte in its reader.
C8_LeftoverBytesFail ==
    \A a \in Attempts :
        /\ (proc[a].status = 1 /\ proc[a].r # NoBytes) =>
              /\ Failed(a)
              /\ proc[a].err = ErrLeftover
              /\ net[a].state = "closed"
              /\ Len(net[a].out) = 1 + 2 * NonceLen
        /\ (proc[a].pc \in SetupPcs \/ Succeeded(a)) => proc[a].r = NoBytes

\* The peer's OKAY frame came in with status 1: the attempt failed with the
\* frame in its reader.
C8_Witness ==
    \E a \in Attempts :
        /\ proc[a].status = 1
        /\ proc[a].r = Frame(extOrCmdOkay, NoBytes)
        /\ Failed(a)
        /\ proc[a].err = ErrLeftover

----------------------------------------------------------------------------
(* C9 *)

\* C9: without ExtendedOrAddr, ConnectOr dials only OrAddr and returns the
\* result of the dial: nothing is read or written, no HMAC is computed, no
\* deadline is set; with ExtendedOrAddr only that address is dialed; an
\* attempt dials one address.
C9_OneModePerAttempt ==
    \A a \in Attempts :
        /\ ~ExtendedConfigured =>
              /\ net[a].dials \subseteq {info.OrAddr}
              /\ net[a].out = NoBytes
              /\ net[a].nread = 0
              /\ net[a].deadline = "none"
              /\ proc[a].hmacs = {}
              /\ proc[a].pc \in {"idle", "done"}
              /\ Returned(a) =>
                    \/ Succeeded(a) /\ net[a].state = "open" /\ net[a].addr = info.OrAddr
                    \/ Failed(a) /\ proc[a].err = "dial" /\ net[a].state = "none"
        /\ ExtendedConfigured => net[a].dials \subseteq {info.ExtendedOrAddr}
        /\ proc[a].pc # "idle" => Cardinality(net[a].dials) = 1

\* A direct attempt returned the connection to the OR port.
C9_Witness ==
    \E a \in Attempts :
        ~ExtendedConfigured /\ Succeeded(a) /\ net[a].dials = {"or"}

----------------------------------------------------------------------------
(* C10 *)

\* Where the deadline stands at each point of an attempt on the extended
\* OR port: set during handshake and setup and after a failure, none on the
\* connection returned.
DeadlineState ==
    \A a \in Attempts :
        /\ proc[a].pc \in AuthPcs \cup SetupPcs => net[a].deadline = "set"
        /\ Succeeded(a) => net[a].deadline = "none" /\ ~net[a].expired
        /\ (Failed(a) /\ net[a].state = "closed") => net[a].deadline = "set"

\* What a step may do to the deadline: bytes are read or written only with
\* the deadline set and not passed; a deadline that has passed stays passed
\* to the end of the attempt; the deadline goes only with the return of the
\* stream.
DeadlineStep ==
    \A a \in Attempts :
        /\ (net'[a].out # net[a].out \/ net'[a].nread # net[a].nread)
              => net[a].deadline = "set" /\ ~net[a].expired
        /\ (net[a].expired /\ proc'[a].stream # "s") => net'[a].expired
        /\ (net[a].deadline = "set" /\ net'[a].deadline = "none")
              => proc'[a].pc = "done" /\ proc'[a].stream = "s" /\ proc'[a].err = "nil"

\* C10: on the extended OR port one deadline is set before the first read
\* or write, is in force at every read and write of the handshake and of
\* the setup, and is cleared exactly when both have succeeded: the
\* connection returned has no deadline.
C10_OneDeadline == [](DeadlineState) /\ [][DeadlineStep]_vars

\* The deadline passed during session setup and the attempt failed with it
\* still set.
C10_Witness ==
    \E a \in Attempts :
        /\ Failed(a)
        /\ proc[a].err = "timeout"
        /\ Len(net[a].out) > 1 + 2 * NonceLen
        /\ net[a].deadline = "set"
        /\ net[a].expired

----------------------------------------------------------------------------
(* C11 *)

\* The next step of the attempt is a read of the connection: a read through
\* the reader r with nothing buffered, or a read of extOrPortRecvCommand.
AtConnRead(a) ==
    \/ proc[a].pc \in {"authTypes", "serverHash", "serverNonce", "status"}
          /\ proc[a].r = NoBytes
    \/ proc[a].pc \in {"recvHeader", "recvBody"}

\* The next step of the attempt is a write to the connection.
AtConnWrite(a) ==
    \/ proc[a].pc \in {"writeAuthType", "writeClientNonce", "writeClientHash",
                       "sendUserAddr", "sendDone"}
    \/ proc[a].pc = "sendTransport" /\ InputsFit(a)

RejectionErrors == {ErrNoType1, ErrMismatch, ErrStatus, ErrDeny}

\* The attempt is in a read or a write of the connection with the deadline
\* passed, and this step is the attempt's: it returns the timeout.
TimeoutStep ==
    \A a \in Attempts :
        (/\ net[a].expired
         /\ AtConnRead(a) \/ AtConnWrite(a)
         /\ proc'[a] # proc[a])
            => /\ proc'[a].pc = "done"
               /\ proc'[a].stream = "nil"
               /\ proc'[a].err = "timeout"
               /\ proc'[a].err \notin RejectionErrors
               /\ net'[a].state = "closed"

\* The deadline passes on an attempt that is in a read or a write of the
\* connection: the attempt stays there, with the deadline passed, until its
\* own next step.
ExpiryStep ==
    \A a \in Attempts :
        (/\ AtConnRead(a) \/ AtConnWrite(a)
         /\ net[a].expired \/ net'[a].expired
         /\ proc'[a] = proc[a])
            => /\ net'[a].expired
               /\ AtConnRead(a)' \/ AtConnWrite(a)'

\* C11: when the deadline passes while the attempt is in a read or a write
\* of the handshake or of the session setup, at whichever step, the attempt
\* stays in that read or write until it returns, and it returns no stream
\* and the timeout error: neither success nor one of the rejection errors.
C11_ExpiryIsTimeout == [][TimeoutStep /\ ExpiryStep]_vars

\* The attempt had read two bytes of the response header and was waiting
\* for the rest when the deadline passed: it failed with the timeout.
C11_Witness ==
    \E a \in Attempts :
        /\ Failed(a)
        /\ proc[a].err = "timeout"
        /\ Len(proc[a].data) = 2
        /\ net[a].nread = Len(net[a].sent)
        /\ ~peer[a].closed

----------------------------------------------------------------------------
(* C12 *)

CodecReceived == call.fn = "codec" /\ call.pc = "done" /\ call.werr = "nil"

\* C12: for each of the five command ids and every body of 0 to 65535
\* bytes, extOrPortWriteCommand writes the id in two bytes, high byte
\* first, the length of the body the same way, the body, and nothing else;
\* and extOrPortRecvCommand, reading these bytes, returns the same id and
\* the same body without error, having read the 4 + len(body) bytes of the
\* frame and none of the bytes that follow.
C12_FramingRoundTrip ==
    /\ (call.fn = "codec" /\ call.pc # "write" /\ Len(call.body) <= MaxBodyLen) =>
          /\ call.werr = "nil"
          /\ call.out = call.before
                \o << call.cmd \div 256, call.cmd % 256 >>
                \o << Len(call.body) \div 256, Len(call.body) % 256 >>
                \o call.body
    /\ (CodecReceived /\ ~call.cut) =>
          /\ call.res.err = "nil"
          /\ call.res.cmd = call.cmd
          /\ call.res.body = call.body
          /\ call.res.n = 4 + Len(call.body)
          /\ call.res.n <= Len(call.in)

\* An OKAY command with a body of 65535 bytes came back as it was written,
\* with the next frame left on the stream.
C12_Witness ==
    /\ CodecReceived
    /\ call.cmd = extOrCmdOkay
    /\ Len(call.body) = MaxBodyLen
    /\ call.res.cmd = extOrCmdOkay
    /\ call.res.body = call.body
    /\ Len(call.in) = call.res.n + 4

----------------------------------------------------------------------------
(* C13 *)

\* C13: extOrPortWriteCommand called with a body of more than 65535 bytes
\* returns the error and writes nothing: the connection holds the bytes it
\* held before the call.
C13_TooLongWritesNothing ==
    (call.fn = "codec" /\ call.pc # "write" /\ Len(call.body) > MaxBodyLen) =>
        /\ call.werr = ErrTooLong
        /\ call.out = call.before
        /\ call.pc = "done"
        /\ call.in = NoBytes

\* A body of 65536 bytes was refused, with two bytes on the connection
\* before the call and after it.
C13_Witness ==
    /\ call.fn = "codec"
    /\ call.pc = "done"
    /\ Len(call.body) = MaxBodyLen + 1
    /\ call.werr = ErrTooLong
    /\ call.before = <<0, 1>>
    /\ call.out = <<0, 1>>

----------------------------------------------------------------------------
(* C14 *)

\* The length the header on the stream declares, when the stream has one.
Declared == call.in[3] * 256 + call.in[4]

\* The stream holds a whole frame: the header and the body it declares.
WholeFrame == Len(call.in) >= 4 /\ Len(call.in) >= 4 + Declared

\* extOrPortRecvCommand returns without error exactly on a whole frame,
\* having read the header and the declared number of body bytes, and with
\* the id and the body of the frame.
NoErrorIffWholeFrame ==
    /\ call.res.err = "nil" <=> WholeFrame
    /\ ~WholeFrame => call.res.err \in {"EOF", "unexpected EOF"}
    /\ WholeFrame =>
          /\ call.res.n = 4 + Declared
          /\ call.res.cmd = call.in[1] * 256 + call.in[2]
          /\ call.res.body = SubSeq(call.in, 5, 4 + Declared)

\* C14 as stated: extOrPortRecvCommand returns without error only after
\* the whole header and the declared number of body bytes; when the stream
\* ends before, inside the header or inside the body, the result is an
\* error, and neither an id nor a partially filled body is returned.
C14_Original ==
    CodecReceived =>
        /\ NoErrorIffWholeFrame
        /\ call.res.err # "nil" => call.res.cmd = 0 /\ call.res.body = NoBytes

\* C14 amended: the same, but only a stream that ends inside the header
\* gives id 0 and no body with the error; when it ends inside the body the
\* id parsed from the header and the body buffer of the declared length,
\* filled as far as the stream went, are returned together with the error.
C14_ErrorOnShortStream ==
    CodecReceived =>
        /\ NoErrorIffWholeFrame
        /\ (call.res.err # "nil" /\ Len(call.in) < 4) =>
              call.res.cmd = 0 /\ call.res.body = NoBytes
        /\ (call.res.err # "nil" /\ Len(call.in) >= 4) =>
              /\ call.res.cmd = call.cmd
              /\ Len(call.res.body) = Declared
              /\ call.res.n = Len(call.in)
              /\ \A i \in 1..Declared :
                    call.res.body[i] = IF 4 + i <= Len(call.in) THEN call.in[4 + i] ELSE 0

\* The stream ended after the first byte of a DENY frame's two-byte body:
\* the error came with the id and the body half filled.
C14_Witness ==
    /\ CodecReceived
    /\ call.cut
    /\ call.cmd = extOrCmdDeny
    /\ call.body = <<255, 255>>
    /\ Len(call.in) = 5
    /\ call.res = [cmd |-> extOrCmdDeny, body |-> <<255, 0>>,
                    err |-> "unexpected EOF", n |-> 5]

----------------------------------------------------------------------------
(* C15 *)

\* ServerSetup has called readAuthCookieFile on the file.
CookieFileRead == call.fn = "ServerSetup" /\ call.read # NotRead

\* The file is 64 bytes long and starts with the header.
WellFormedCookieFile(file) ==
    /\ file.exists
    /\ Len(file.bytes) = 64
    /\ \A i \in 1..32 : file.bytes[i] = authCookieHeader[i]

\* C15: readAuthCookieFile returns no error exactly when the file is 64
\* bytes long and its first 32 bytes are the header '! Extended ORPort Auth
\* Cookie !' and a line feed, and the cookie it then returns is the last
\* 32 bytes of the file; a file that is shorter, or longer, or differs
\* from the header in a byte, gives an error.
C15_CookieFileFormat ==
    CookieFileRead =>
        LET file == call.env.file
        IN  /\ call.read.err = "nil" <=> WellFormedCookieFile(file)
            /\ WellFormedCookieFile(file) =>
                  /\ call.read.cookie = [i \in 1..32 |-> file.bytes[32 + i]]
                  /\ info.AuthCookie = call.read.cookie
                  /\ call.err = "nil"
            /\ ~WellFormedCookieFile(file) => call.err = "ENV-ERROR"

\* ServerSetup read a well-formed file and has its cookie, the bytes 101 to
\* 132.
C15_Witness ==
    /\ CookieFileRead
    /\ WellFormedCookieFile(call.env.file)
    /\ call.err = "nil"
    /\ info.AuthCookie = [i \in 1..32 |-> 100 + i]

----------------------------------------------------------------------------
(* C16 *)

\* ServerSetup returned an error because readAuthCookieFile did.
CookieFileFailed ==
    /\ call.fn = "ServerSetup"
    /\ call.pc = "returned"
    /\ call.read # NotRead
    /\ call.read.err # "nil"

\* C16: when the reading of the cookie file fails in ServerSetup, as for a
\* file cut to 40 bytes, ServerSetup returns an ENV-ERROR, and no call of
\* ConnectOr with the ServerInfo it returned dials the extended OR port or
\* the OR port.
C16_NoDialAfterFailedSetup ==
    CookieFileFailed =>
        /\ call.err = "ENV-ERROR"
        /\ \A a \in Attempts : net[a].dials = {}

----------------------------------------------------------------------------
(* C17 *)

\* The writes of an attempt on the extended OR port, in the order of the
\* protocol: the selection, the client nonce, the client hash, USERADDR,
\* TRANSPORT, DONE.
WriteItem(a, k) ==
    CASE k = 1 -> <<1>>
      [] k = 2 -> proc[a].clientNonce
      [] k = 3 -> Hmac(info.AuthCookie, ClientHashDomain, proc[a].clientNonce,
                       proc[a].serverNonce)
      [] k = 4 -> Frame(extOrCmdUserAddr, RemoteAddr(a))
      [] k = 5 -> Frame(extOrCmdTransport, MethodName(proc[a].methodNameLen))
      [] k = 6 -> Frame(extOrCmdDone, NoBytes)

\* The first k of them.
Writes(a, k) ==
    LET w[i \in 0..k] == IF i = 0 THEN NoBytes ELSE w[i - 1] \o WriteItem(a, i)
    IN  w[k]

\* The number of writes that precede each point of the attempt.
WritesBefore(pc) ==
    CASE pc \in {"idle", "authTypes", "writeAuthType"} -> 0
      [] pc \in {"clientNonce", "writeClientNonce"} -> 1
      [] pc \in {"serverHash", "serverNonce", "verify", "writeClientHash"} -> 2
      [] pc \in {"status", "sendUserAddr"} -> 3
      [] pc = "sendTransport" -> 4
      [] pc = "sendDone" -> 5
      [] pc \in {"recvHeader", "recvBody"} -> 6

\* The attempt has written the first k items and nothing else.
Written(a, k) ==
    /\ k >= 2 => proc[a].clientNonce # NoBytes
    /\ k >= 3 => proc[a].serverNonce # NoBytes
    /\ Len(net[a].out) = Len(Writes(a, k))
    /\ net[a].out = Writes(a, k)

\* What has been read before each write: the terminated list with type 1
\* before the selection, the server hash and nonce, verified, before the
\* client hash, status 1 and nothing more before USERADDR; and nothing is
\* read between the status and DONE.
ReadBeforeWrite(a, k) ==
    /\ k >= 1 =>
          /\ net[a].nread > proc[a].count
          /\ net[a].sent[proc[a].count + 1] = 0
          /\ \A i \in 1..proc[a].count : net[a].sent[i] # 0
          /\ 1 \in proc[a].authTypes
    /\ k >= 3 =>
          /\ proc[a].serverHash # NoBytes
          /\ proc[a].serverNonce # NoBytes
          /\ ~ServerHashMismatch(a)
    /\ k >= 4 => proc[a].status = 1 /\ proc[a].r = NoBytes
    /\ k \in {4, 5} => net[a].nread = HandshakeBytes(a)
    /\ k <= 5 => proc[a].cmd = -1

WriteOrderState ==
    \A a \in Attempts :
        \E k \in 0..6 :
            /\ Written(a, k)
            /\ ~Returned(a) => k = WritesBefore(proc[a].pc)
            /\ ReadBeforeWrite(a, k)
            /\ (ExtendedConfigured /\ Succeeded(a)) => k = 6

\* A step that writes appends the one item that comes next.
WriteOrderStep ==
    \A a \in Attempts :
        net'[a].out # net[a].out =>
            \E k \in 0..5 :
                /\ Written(a, k)
                /\ Written(a, k + 1)'

\* C17: the writes of an attempt on the extended OR port come in this
\* order, each at most once and each after the step before it: the
\* selection byte 1 once the terminated list is read, the client nonce,
\* the client hash once the server hash and nonce are read and the hash
\* verified, USERADDR once status 1 is read and nothing is left in the
\* reader, TRANSPORT, DONE; and the response is read only after DONE.
C17_WriteOrder == [](WriteOrderState) /\ [][WriteOrderStep]_vars

\* Everything was written and a response was received.
C17_Witness ==
    \E a \in Attempts :
        /\ Written(a, 6)
        /\ Returned(a)
        /\ proc[a].cmd = extOrCmdDeny
        /\ net[a].nread = HandshakeBytes(a) + 4 + proc[a].bodyLen

----------------------------------------------------------------------------
(* C18 *)

\* ConnectOr has returned the stream, or an error with the connection
\* closed.
Terminal(a) ==
    \/ Succeeded(a) /\ net[a].state = "open"
    \/ Failed(a) /\ net[a].state = "closed"

\* C18: an attempt that has dialed the extended OR port and set its
\* deadline returns, with the stream or with an error and the connection
\* closed, whatever the peer does or leaves undone.
C18_AttemptEnds ==
    \A a \in Attempts :
        (proc[a].pc \in AuthPcs \cup SetupPcs) ~> Terminal(a)

\* The peer sent nothing at all and did not close: the attempt ended with
\* the timeout.
C18_Witness ==
    \E a \in Attempts :
        /\ Failed(a)
        /\ proc[a].err = "timeout"
        /\ net[a].state = "closed"
        /\ net[a].sent = NoBytes
        /\ ~peer[a].closed

----------------------------------------------------------------------------
(* C19 *)

\* A step changes the locals, the connection and the peer of one attempt
\* at most, and leaves the ServerInfo as it is.
OneAttemptStep ==
    /\ info' = info
    /\ \A a, b \in ConcAttempts :
          (a # b /\ (proc'[a] # proc[a] \/ net'[a] # net[a] \/ peer'[a] # peer[a]))
             => proc'[b] = proc[b] /\ net'[b] = net[b] /\ peer'[b] = peer[b]

\* The nonces and hashes of attempt a are its own: the client nonce on its
\* connection is the one it drew, its server nonce is the one its own peer
\* sent, the server hash it accepted and the client hash it wrote are the
\* HMACs over these two.
OwnNonces(a) ==
    LET p == proc[a]
        c == net[a]
    IN  /\ Len(c.out) >= 1 + NonceLen => SubSeq(c.out, 2, 1 + NonceLen) = p.clientNonce
        /\ p.serverNonce # NoBytes =>
              /\ p.serverNonce = ServerNonceOf(a)
              /\ p.serverNonce = SubSeq(c.sent, 3 + NonceLen, 2 + 2 * NonceLen)
              /\ p.serverHash = SubSeq(c.sent, 3, 2 + NonceLen)
        /\ Len(c.out) >= 1 + 2 * NonceLen =>
              /\ p.serverHash =
                    Hmac(info.AuthCookie, ServerHashDomain, p.clientNonce, p.serverNonce)
              /\ SubSeq(c.out, 2 + NonceLen, 1 + 2 * NonceLen) =
                    Hmac(info.AuthCookie, ClientHashDomain, p.clientNonce, p.serverNonce)

\* What attempt a returns, alone, to a peer that sent what peer[a] sent,
\* when no read or write fails.
AloneResult(a) ==
    IF peer[a].hash # Hmac(info.AuthCookie, ServerHashDomain, proc[a].clientNonce,
                           peer[a].nonce)
    THEN ErrMismatch
    ELSE IF peer[a].status # 1 THEN ErrStatus
    ELSE IF proc[a].methodNameLen > MaxBodyLen THEN ErrTooLong
    ELSE IF peer[a].response = Frame(extOrCmdOkay, NoBytes) THEN "nil"
    ELSE ErrDeny

\* The outcome of attempt a is the one it has alone.
OutcomeAsAlone(a) ==
    /\ (Returned(a) /\ ExtendedConfigured /\ proc[a].err \notin IOErrors) =>
          /\ proc[a].err = AloneResult(a)
          /\ proc[a].err = "nil" <=> Succeeded(a)
    /\ (Returned(a) /\ proc[a].err = "timeout") => net[a].expired
    /\ (Returned(a) /\ proc[a].err \in IOErrors) => proc[a].err \in {"dial", "timeout", "rand"}
    /\ Succeeded(a) => net[a].state = "open" /\ ~net[a].expired
    /\ net[a].dials \subseteq {info.OrAddr, info.ExtendedOrAddr}

ConcurrentState ==
    /\ info \in ServerInfos
    /\ \A a \in ConcAttempts : OwnNonces(a) /\ OutcomeAsAlone(a)

\* C19: with attempts running concurrently on one ServerInfo, under every
\* interleaving, the ServerInfo and its cookie are never modified; each
\* attempt reads and writes its own connection only and computes and
\* checks its hashes over its own client nonce and the server nonce that
\* came on its own connection; and each attempt returns what it returns
\* alone against a peer that behaves the same.
C19_AttemptsIndependent == [](ConcurrentState) /\ [][OneAttemptStep]_vars

\* Two attempts ran with different nonces: the first succeeded; the second
\* was sent the server hash over the nonce of the first, and refused it.
C19_Witness ==
    /\ Succeeded(1)
    /\ proc[1].clientNonce # proc[2].clientNonce
    /\ peer[2].hash = Hmac(info.AuthCookie, ServerHashDomain, proc[1].clientNonce,
                            ServerNonceOf(2))
    /\ Failed(2)
    /\ proc[2].err = ErrMismatch

----------------------------------------------------------------------------
(* C20 *)

\* The result the bytes the peer has sent determine, read one after the
\* other with nothing read ahead: the auth types up to the first 0 among
\* the first 256 bytes, the server hash, the server nonce, the status, the
\* response; "short" when the bytes end before a result is reached.
ByteResult(a) ==
    LET s == net[a].sent
        n == Min(Len(s), MaxAuthTypes)
        zeros == { i \in 1..n : s[i] = 0 }
        z == CHOOSE i \in zeros : \A j \in zeros : i <= j
        cmd == s[z + 66] * 256 + s[z + 67]
        bodyLen == s[z + 68] * 256 + s[z + 69]
    IN  IF zeros = {}
        THEN IF n = MaxAuthTypes THEN ErrNoTerminator ELSE "short"
        ELSE IF \A i \in 1..(z - 1) : s[i] # 1 THEN ErrNoType1
        ELSE IF Len(s) < z + 2 * NonceLen THEN "short"
        ELSE IF SubSeq(s, z + 1, z + NonceLen) #
                   Hmac(info.AuthCookie, ServerHashDomain, proc[a].clientNonce,
                        SubSeq(s, z + NonceLen + 1, z + 2 * NonceLen))
        THEN ErrMismatch
        ELSE IF Len(s) < z + 65 THEN "short"
        ELSE IF s[z + 65] # 1 THEN ErrStatus
        ELSE IF proc[a].methodNameLen > MaxBodyLen THEN ErrTooLong
        ELSE IF Len(s) < z + 69 THEN "short"
        ELSE IF Len(s) < z + 69 + bodyLen THEN "short"
        ELSE IF cmd = extOrCmdDeny THEN ErrDeny
        ELSE IF cmd = extOrCmdOkay THEN "nil"
        ELSE ErrUnknown

\* The attempt returned, on the extended OR port, and no read or write of
\* it failed.
ReturnedWithoutIOError(a) ==
    Returned(a) /\ ExtendedConfigured /\ proc[a].err \notin IOErrors

\* The reader of the handshake had read bytes beyond status byte 1.
ReadAhead(a) == proc[a].status = 1 /\ proc[a].r # NoBytes

\* C20 as stated: the result of an attempt on the extended OR port is the
\* one the bytes the peer sent determine, however they were split across
\* the reads and whenever they came: status byte 1 and an OKAY frame give
\* the same result in one segment as with the frame after DONE.
C20_Original ==
    \A a \in Attempts :
        ReturnedWithoutIOError(a) => proc[a].err = ByteResult(a)

\* C20 amended: the same, unless bytes that follow status byte 1 had come
\* when the reader of the handshake read the status: they are in the
\* reader, and the attempt fails with the bytes-left error whatever they
\* are.  A response sent after DONE is never in that case.
C20_BytesDecideUnlessReadAhead ==
    \A a \in Attempts :
        /\ ReturnedWithoutIOError(a) =>
              IF ReadAhead(a)
              THEN /\ proc[a].err = ErrLeftover
                   /\ net[a].nread > HandshakeBytes(a)
              ELSE proc[a].err = ByteResult(a)
        /\ peer[a].late => ~ReadAhead(a)

\* Status byte 1 and the OKAY frame were both sent before the attempt read
\* the status, in two segments; the attempt read the status alone, then
\* the frame, and succeeded.
C20_Witness ==
    \E a \in Attempts :
        /\ Succeeded(a)
        /\ peer[a].status = 1
        /\ peer[a].response = Frame(extOrCmdOkay, NoBytes)
        /\ ~peer[a].late
        /\ ByteResult(a) = "nil"

====
